---- MODULE Spec2Model ----
(***************************************************************************)
(* Order life cycle of ParadoxTrading/Engine/Portfolio.py:                 *)
(* PortfolioPerStrategy (one strategy's book), PortfolioAbstract (the      *)
(* manager) and its two sizing policies SimpleTickPortfolio and            *)
(* SimpleBarPortfolio.  A failed Python assert / raised exception leaves   *)
(* the object in the state reached by the statements executed before it;   *)
(* the outcome of every call is recorded in the variable last.             *)
(***************************************************************************)
EXTENDS Integers, Sequences, FiniteSets, TLC

\* ---------------------------------------------------------------- bounds
\* SimpleTickPortfolio.dealSignal is called while order_index < MaxOrderIndex,
\* SimpleBarPortfolio.dealSignal while order_index < MaxBarOrderIndex.
MaxOrderIndex == 3
MaxBarOrderIndex == 2
\* Runs in which the engine delivers a fill that does not copy its order are
\* followed while order_index <= MaxDeviantOrderIndex, and hold at most
\* MaxDeviantFills such fills.
MaxDeviantOrderIndex == 2
MaxDeviantFills == 1
\* A book driven directly through its own methods receives orders with indices
\* 0..MaxBookIndex while it holds fewer than MaxBookOrders recorded orders,
\* and incPosition while its sides together stay <= MaxBookPosition.
MaxBookIndex == 1
MaxBookOrders == 2
MaxBookPosition == 2

\* ------------------------------------------------------------ input sets
Strategies == {"A", "B"}
Instruments == {"X", "Y"}
SignalTypes == {"LONG", "SHORT", "OTHER"}
FillActions == {"OPEN", "CLOSE", "OTHER"}
FillDirections == {"BUY", "SELL", "OTHER"}
FillQuantities == {1, 2}
PriceColumns == {"closeprice", "openprice"}
\* engine.getInstrumentData(instrument): the columns of the instrument's bars.
InstrumentData ==
    [i \in Instruments |->
        IF i = "X"
        THEN [closeprice |-> <<10, 11>>, openprice |-> <<12, 13>>]
        ELSE [closeprice |-> <<20, 21>>, openprice |-> <<22, 23>>]]

\* ------------------------------------------------- enumerations (Event)
LONG == "LONG"
SHORT == "SHORT"
OPEN == "OPEN"
CLOSE == "CLOSE"
BUY == "BUY"
SELL == "SELL"
MARKET == "MARKET"
LIMIT == "LIMIT"
None == "None"
NoPrice == <<>>

\* ------------------------------------------------------- dict helpers
EmptyDict == [k \in {} |-> 0]

Put(d, k, v) == [x \in (DOMAIN d) \cup {k} |-> IF x = k THEN v ELSE d[x]]

Del(d, k) == [x \in (DOMAIN d) \ {k} |-> d[x]]

NoEvent == [none |-> TRUE]

NoOrder == [none |-> TRUE]

Last(seq) == seq[Len(seq)]

VARIABLES policy, engine, engine_events, order_index, order_strategy_dict,
          strategy_portfolio_dict, global_portfolio, price_index, last

vars == <<policy, engine, engine_events, order_index, order_strategy_dict,
          strategy_portfolio_dict, global_portfolio, price_index, last>>

\* ------------------------------------------------ PortfolioPerStrategy
PortfolioPerStrategy ==
    [signal_record |-> <<>>, order_record |-> <<>>, fill_record |-> <<>>,
     position |-> EmptyDict, unfilled_order |-> EmptyDict]

Ok(book) == [err |-> "ok", book |-> book]

Fail(kind, book) == [err |-> kind, book |-> book]

incPosition(book, _instrument, _type, _quantity) ==
    IF ~(_type = LONG \/ _type = SHORT) THEN Fail("InvalidEvent", book)
    ELSE IF ~(_quantity > 0) THEN Fail("InvalidEvent", book)
    ELSE IF _instrument \in DOMAIN book.position
    THEN Ok([book EXCEPT !.position[_instrument][_type] = @ + _quantity])
    ELSE Ok([book EXCEPT !.position =
                Put(@, _instrument,
                    [[LONG |-> 0, SHORT |-> 0] EXCEPT ![_type] = _quantity])])

\* decPosition without the assert of line 59.
decPosition_NoSufficiencyCheck(book, _instrument, _type, _quantity) ==
    IF ~(_type = LONG \/ _type = SHORT) THEN Fail("InvalidEvent", book)
    ELSE IF ~(_quantity > 0) THEN Fail("InvalidEvent", book)
    ELSE IF _instrument \notin DOMAIN book.position
    THEN Fail("InsufficientPosition", book)
    ELSE Ok([book EXCEPT !.position[_instrument][_type] = @ - _quantity])

\* decPosition that creates the instrument's record before the assert of
\* line 58 fails.
decPosition_CreatesRecord(book, _instrument, _type, _quantity) ==
    IF ~(_type = LONG \/ _type = SHORT) THEN Fail("InvalidEvent", book)
    ELSE IF ~(_quantity > 0) THEN Fail("InvalidEvent", book)
    ELSE IF _instrument \notin DOMAIN book.position
    THEN Fail("InsufficientPosition",
              [book EXCEPT !.position =
                  Put(@, _instrument, [LONG |-> 0, SHORT |-> 0])])
    ELSE IF ~(book.position[_instrument][_type] >= _quantity)
    THEN Fail("InsufficientPosition", book)
    ELSE Ok([book EXCEPT !.position[_instrument][_type] = @ - _quantity])

decPosition(book, _instrument, _type, _quantity) ==
    IF ~(_type = LONG \/ _type = SHORT) THEN Fail("InvalidEvent", book)
    ELSE IF ~(_quantity > 0) THEN Fail("InvalidEvent", book)
    ELSE IF _instrument \notin DOMAIN book.position
    THEN Fail("InsufficientPosition", book)
    ELSE IF ~(book.position[_instrument][_type] >= _quantity)
    THEN Fail("InsufficientPosition", book)
    ELSE Ok([book EXCEPT !.position[_instrument][_type] = @ - _quantity])

getPosition(book, _instrument, _type) ==
    IF _instrument \in DOMAIN book.position
    THEN book.position[_instrument][_type]
    ELSE 0

getLongPosition(book, _instrument) == getPosition(book, _instrument, LONG)

getShortPosition(book, _instrument) == getPosition(book, _instrument, SHORT)

RECURSIVE SumQuantity(_, _)
SumQuantity(orders, keys) ==
    IF keys = {} THEN 0
    ELSE LET k == CHOOSE x \in keys : TRUE
         IN orders[k].quantity + SumQuantity(orders, keys \ {k})

getUnfilledOrder(book, _instrument, _action, _direction) ==
    SumQuantity(book.unfilled_order,
                {k \in DOMAIN book.unfilled_order :
                    /\ book.unfilled_order[k].instrument = _instrument
                    /\ book.unfilled_order[k].action = _action
                    /\ book.unfilled_order[k].direction = _direction})

getOpenBuyUnfilledOrder(book, _instrument) ==
    getUnfilledOrder(book, _instrument, OPEN, BUY)

getOpenSellUnfilledOrder(book, _instrument) ==
    getUnfilledOrder(book, _instrument, OPEN, SELL)

getCloseBuyUnfilledOrder(book, _instrument) ==
    getUnfilledOrder(book, _instrument, CLOSE, BUY)

getCloseSellUnfilledOrder(book, _instrument) ==
    getUnfilledOrder(book, _instrument, CLOSE, SELL)

dealSignalEvent(book, _signal_event) ==
    Ok([book EXCEPT !.signal_record = Append(@, _signal_event)])

\* dealOrderEvent without the assert of line 168.
dealOrderEvent_Overwrite(book, _order_event) ==
    Ok([book EXCEPT
           !.order_record = Append(@, _order_event),
           !.unfilled_order = Put(@, _order_event.index, _order_event)])

dealOrderEvent(book, _order_event) ==
    IF _order_event.index \in DOMAIN book.unfilled_order
    THEN Fail("DuplicateOrderIndex", book)
    ELSE Ok([book EXCEPT
                !.order_record = Append(@, _order_event),
                !.unfilled_order = Put(@, _order_event.index, _order_event)])

\* dealFillEvent whose CLOSE/BUY branch decrements the long side.
dealFillEvent_WrongSide(book, _fill_event) ==
    IF _fill_event.index \notin DOMAIN book.unfilled_order
    THEN Fail("UnknownOrder", book)
    ELSE LET b == [book EXCEPT
                      !.fill_record = Append(@, _fill_event),
                      !.unfilled_order = Del(@, _fill_event.index)]
         IN IF _fill_event.action = OPEN
            THEN IF _fill_event.direction = BUY
                 THEN incPosition(b, _fill_event.instrument, LONG,
                                  _fill_event.quantity)
                 ELSE IF _fill_event.direction = SELL
                 THEN incPosition(b, _fill_event.instrument, SHORT,
                                  _fill_event.quantity)
                 ELSE Fail("InvalidEvent", b)
            ELSE IF _fill_event.action = CLOSE
            THEN IF _fill_event.direction = BUY
                 THEN decPosition(b, _fill_event.instrument, LONG,
                                  _fill_event.quantity)
                 ELSE IF _fill_event.direction = SELL
                 THEN decPosition(b, _fill_event.instrument, LONG,
                                  _fill_event.quantity)
                 ELSE Fail("InvalidEvent", b)
            ELSE Fail("InvalidEvent", b)

\* dealFillEvent without the assert of line 179.
dealFillEvent_NoOutstandingCheck(book, _fill_event) ==
    LET b == [book EXCEPT
                 !.fill_record = Append(@, _fill_event),
                 !.unfilled_order = Del(@, _fill_event.index)]
    IN IF _fill_event.action = OPEN
       THEN IF _fill_event.direction = BUY
            THEN incPosition(b, _fill_event.instrument, LONG,
                             _fill_event.quantity)
            ELSE IF _fill_event.direction = SELL
            THEN incPosition(b, _fill_event.instrument, SHORT,
                             _fill_event.quantity)
            ELSE Fail("InvalidEvent", b)
       ELSE IF _fill_event.action = CLOSE
       THEN IF _fill_event.direction = BUY
            THEN decPosition(b, _fill_event.instrument, SHORT,
                             _fill_event.quantity)
            ELSE IF _fill_event.direction = SELL
            THEN decPosition(b, _fill_event.instrument, LONG,
                             _fill_event.quantity)
            ELSE Fail("InvalidEvent", b)
       ELSE Fail("InvalidEvent", b)

\* dealFillEvent without the del of line 181.
dealFillEvent_KeepOutstanding(book, _fill_event) ==
    IF _fill_event.index \notin DOMAIN book.unfilled_order
    THEN Fail("UnknownOrder", book)
    ELSE LET b == [book EXCEPT !.fill_record = Append(@, _fill_event)]
         IN IF _fill_event.action = OPEN
            THEN IF _fill_event.direction = BUY
                 THEN incPosition(b, _fill_event.instrument, LONG,
                                  _fill_event.quantity)
                 ELSE IF _fill_event.direction = SELL
                 THEN incPosition(b, _fill_event.instrument, SHORT,
                                  _fill_event.quantity)
                 ELSE Fail("InvalidEvent", b)
            ELSE IF _fill_event.action = CLOSE
            THEN IF _fill_event.direction = BUY
                 THEN decPosition(b, _fill_event.instrument, SHORT,
                                  _fill_event.quantity)
                 ELSE IF _fill_event.direction = SELL
                 THEN decPosition(b, _fill_event.instrument, LONG,
                                  _fill_event.quantity)
                 ELSE Fail("InvalidEvent", b)
            ELSE Fail("InvalidEvent", b)

\* dealFillEvent without the append of line 180.
dealFillEvent_NoRecord(book, _fill_event) ==
    IF _fill_event.index \notin DOMAIN book.unfilled_order
    THEN Fail("UnknownOrder", book)
    ELSE LET b == [book EXCEPT
                      !.unfilled_order = Del(@, _fill_event.index)]
         IN IF _fill_event.action = OPEN
            THEN IF _fill_event.direction = BUY
                 THEN incPosition(b, _fill_event.instrument, LONG,
                                  _fill_event.quantity)
                 ELSE IF _fill_event.direction = SELL
                 THEN incPosition(b, _fill_event.instrument, SHORT,
                                  _fill_event.quantity)
                 ELSE Fail("InvalidEvent", b)
            ELSE IF _fill_event.action = CLOSE
            THEN IF _fill_event.direction = BUY
                 THEN decPosition(b, _fill_event.instrument, SHORT,
                                  _fill_event.quantity)
                 ELSE IF _fill_event.direction = SELL
                 THEN decPosition(b, _fill_event.instrument, LONG,
                                  _fill_event.quantity)
                 ELSE Fail("InvalidEvent", b)
            ELSE Fail("InvalidEvent", b)

dealFillEvent(book, _fill_event) ==
    IF _fill_event.index \notin DOMAIN book.unfilled_order
    THEN Fail("UnknownOrder", book)
    ELSE LET b == [book EXCEPT
                      !.fill_record = Append(@, _fill_event),
                      !.unfilled_order = Del(@, _fill_event.index)]
         IN IF _fill_event.action = OPEN
            THEN IF _fill_event.direction = BUY
                 THEN incPosition(b, _fill_event.instrument, LONG,
                                  _fill_event.quantity)
                 ELSE IF _fill_event.direction = SELL
                 THEN incPosition(b, _fill_event.instrument, SHORT,
                                  _fill_event.quantity)
                 ELSE Fail("InvalidEvent", b)
            ELSE IF _fill_event.action = CLOSE
            THEN IF _fill_event.direction = BUY
                 THEN decPosition(b, _fill_event.instrument, SHORT,
                                  _fill_event.quantity)
                 ELSE IF _fill_event.direction = SELL
                 THEN decPosition(b, _fill_event.instrument, LONG,
                                  _fill_event.quantity)
                 ELSE Fail("InvalidEvent", b)
            ELSE Fail("InvalidEvent", b)

\* ---------------------------------------------------------- OrderEvent
\* OrderEvent(_index, _instrument, _tradingday, _datetime, _order_type):
\* action and direction start as None, quantity as 1, price as None.
OrderEvent(_index, _instrument, _order_type) ==
    [index |-> _index, instrument |-> _instrument, order_type |-> _order_type,
     action |-> None, direction |-> None, quantity |-> 1, price |-> NoPrice]

\* ---------------------------------------------------- PortfolioAbstract
\* The manager object as a record of its fields.
Self ==
    [engine |-> engine, engine_events |-> engine_events,
     order_index |-> order_index,
     order_strategy_dict |-> order_strategy_dict,
     strategy_portfolio_dict |-> strategy_portfolio_dict,
     price_index |-> price_index]

\* The outcome of a call: how it ended, the manager's state it left, the order
\* it built, and the calls it made on its collaborators in execution order.
Result(status, self, order) ==
    [status |-> status, self |-> self, order |-> order, calls |-> <<>>]

Called(r, _calls) == [r EXCEPT !.calls = _calls \o @]

\* addStrategy without the assert of line 277.
addStrategy_Overwrite(self, _name) ==
    Result("ok",
           [self EXCEPT !.strategy_portfolio_dict =
               Put(@, _name, PortfolioPerStrategy)],
           NoOrder)

addStrategy(self, _name) ==
    IF _name \in DOMAIN self.strategy_portfolio_dict
    THEN Result("DuplicateStrategy", self, NoOrder)
    ELSE Result("ok",
                [self EXCEPT !.strategy_portfolio_dict =
                    Put(@, _name, PortfolioPerStrategy)],
                NoOrder)

\* incOrderIndex that returns the counter without incrementing it.
incOrderIndex_NoIncrement(self) ==
    [ret |-> self.order_index, self |-> self]

\* incOrderIndex that returns the counter after incrementing it.
incOrderIndex_FromOne(self) ==
    [ret |-> self.order_index + 1,
     self |-> [self EXCEPT !.order_index = @ + 1]]

incOrderIndex(self) ==
    [ret |-> self.order_index,
     self |-> [self EXCEPT !.order_index = @ + 1]]

\* addEvent without the assignment of line 318.
addEvent_NoMap(self, _order_event, _strategy) ==
    IF _order_event.order_type = None
    THEN Result("InvalidEvent", self, _order_event)
    ELSE IF _order_event.action = None
    THEN Result("InvalidEvent", self, _order_event)
    ELSE IF _order_event.direction = None
    THEN Result("InvalidEvent", self, _order_event)
    ELSE IF ~(_order_event.quantity > 0)
    THEN Result("InvalidEvent", self, _order_event)
    ELSE IF _order_event.order_type = LIMIT /\ _order_event.price = NoPrice
    THEN Result("InvalidEvent", self, _order_event)
    ELSE IF ~self.engine
    THEN Result("EngineNotSet", self, _order_event)
    ELSE Result("ok",
                [self EXCEPT !.engine_events = Append(@, _order_event)],
                _order_event)

\* addEvent that hands the order to the engine before it records the index.
addEvent_SendFirst(self, _order_event, _strategy) ==
    IF _order_event.order_type = None
    THEN Called(Result("InvalidEvent", self, _order_event), <<"addEvent.check">>)
    ELSE IF _order_event.action = None
    THEN Called(Result("InvalidEvent", self, _order_event), <<"addEvent.check">>)
    ELSE IF _order_event.direction = None
    THEN Called(Result("InvalidEvent", self, _order_event), <<"addEvent.check">>)
    ELSE IF ~(_order_event.quantity > 0)
    THEN Called(Result("InvalidEvent", self, _order_event), <<"addEvent.check">>)
    ELSE IF _order_event.order_type = LIMIT /\ _order_event.price = NoPrice
    THEN Called(Result("InvalidEvent", self, _order_event), <<"addEvent.check">>)
    ELSE IF ~self.engine
    THEN Called(Result("EngineNotSet", self, _order_event),
                <<"addEvent.check">>)
    ELSE Called(Result("ok",
                       [self EXCEPT
                           !.engine_events = Append(@, _order_event),
                           !.order_strategy_dict =
                               Put(@, _order_event.index, _strategy)],
                       _order_event),
                <<"addEvent.check", "engine.addEvent", "addEvent.map">>)

addEvent(self, _order_event, _strategy) ==
    IF _order_event.order_type = None
    THEN Called(Result("InvalidEvent", self, _order_event), <<"addEvent.check">>)
    ELSE IF _order_event.action = None
    THEN Called(Result("InvalidEvent", self, _order_event), <<"addEvent.check">>)
    ELSE IF _order_event.direction = None
    THEN Called(Result("InvalidEvent", self, _order_event), <<"addEvent.check">>)
    ELSE IF ~(_order_event.quantity > 0)
    THEN Called(Result("InvalidEvent", self, _order_event), <<"addEvent.check">>)
    ELSE IF _order_event.order_type = LIMIT /\ _order_event.price = NoPrice
    THEN Called(Result("InvalidEvent", self, _order_event), <<"addEvent.check">>)
    ELSE LET mapped == [self EXCEPT !.order_strategy_dict =
                           Put(@, _order_event.index, _strategy)]
         IN IF ~mapped.engine
            THEN Called(Result("EngineNotSet", mapped, _order_event),
                        <<"addEvent.check", "addEvent.map">>)
            ELSE Called(Result("ok",
                               [mapped EXCEPT !.engine_events =
                                   Append(@, _order_event)],
                               _order_event),
                        <<"addEvent.check", "addEvent.map", "engine.addEvent">>)

\* The part of dealSignal shared by both policies (lines 426-429, 474-477):
\* record the signal and the order in the book, then addEvent.
\* The shared part of dealSignal without the call of dealSignalEvent.
RegisterAndSend_NoSignalRecord(self, _event, order_event) ==
    LET name == _event.strategy_name
        portfolio == self.strategy_portfolio_dict[name]
        r2 == dealOrderEvent(portfolio, order_event)
        stored == [self EXCEPT !.strategy_portfolio_dict[name] = r2.book]
    IN IF r2.err # "ok"
       THEN Called(Result(r2.err, stored, order_event), <<"dealOrderEvent">>)
       ELSE Called(addEvent(stored, order_event, name), <<"dealOrderEvent">>)

RegisterAndSend(self, _event, order_event) ==
    LET name == _event.strategy_name
        portfolio == self.strategy_portfolio_dict[name]
        r1 == dealSignalEvent(portfolio, _event)
        r2 == dealOrderEvent(r1.book, order_event)
        stored == [self EXCEPT !.strategy_portfolio_dict[name] = r2.book]
    IN IF r2.err # "ok"
       THEN Called(Result(r2.err, stored, order_event),
                   <<"dealSignalEvent", "dealOrderEvent">>)
       ELSE Called(addEvent(stored, order_event, name),
                   <<"dealSignalEvent", "dealOrderEvent">>)

\* ------------------------------------------------- SimpleTickPortfolio
\* The open/close rule without the outstanding closing orders.
TickAction_NoReservation(portfolio, _event) ==
    IF _event.signal_type = LONG
    THEN IF getShortPosition(portfolio, _event.instrument) > 0
         THEN CLOSE ELSE OPEN
    ELSE IF getLongPosition(portfolio, _event.instrument) > 0
         THEN CLOSE ELSE OPEN

\* The open/close rule with >= 0 in place of > 0.
TickAction_NotStrict(portfolio, _event) ==
    IF _event.signal_type = LONG
    THEN IF getShortPosition(portfolio, _event.instrument)
              - getCloseBuyUnfilledOrder(portfolio, _event.instrument) >= 0
         THEN CLOSE ELSE OPEN
    ELSE IF getLongPosition(portfolio, _event.instrument)
              - getCloseSellUnfilledOrder(portfolio, _event.instrument) >= 0
         THEN CLOSE ELSE OPEN

TickAction(portfolio, _event) ==
    IF _event.signal_type = LONG
    THEN IF getShortPosition(portfolio, _event.instrument)
              - getCloseBuyUnfilledOrder(portfolio, _event.instrument) > 0
         THEN CLOSE ELSE OPEN
    ELSE IF getLongPosition(portfolio, _event.instrument)
              - getCloseSellUnfilledOrder(portfolio, _event.instrument) > 0
         THEN CLOSE ELSE OPEN

\* dealSignal that takes its index before it looks the strategy up.
TickDealSignal_CountFirst(self, _event) ==
    IF ~self.engine
    THEN Result("EngineNotSet", self, NoOrder)
    ELSE IF _event.strategy_name \notin DOMAIN self.strategy_portfolio_dict
    THEN Result("UnknownStrategy", incOrderIndex(self).self, NoOrder)
    ELSE LET portfolio == self.strategy_portfolio_dict[_event.strategy_name]
             inc == incOrderIndex(self)
             created == OrderEvent(inc.ret, _event.instrument, MARKET)
         IN IF _event.signal_type = LONG
            THEN RegisterAndSend(inc.self, _event,
                    [created EXCEPT !.action = TickAction(portfolio, _event),
                                    !.direction = BUY,
                                    !.quantity = 1])
            ELSE IF _event.signal_type = SHORT
            THEN RegisterAndSend(inc.self, _event,
                    [created EXCEPT !.action = TickAction(portfolio, _event),
                                    !.direction = SELL,
                                    !.quantity = 1])
            ELSE Result("InvalidEvent", inc.self, NoOrder)

TickDealSignal(self, _event) ==
    IF ~self.engine
    THEN Result("EngineNotSet", self, NoOrder)
    ELSE IF _event.strategy_name \notin DOMAIN self.strategy_portfolio_dict
    THEN Result("UnknownStrategy", self, NoOrder)
    ELSE LET portfolio == self.strategy_portfolio_dict[_event.strategy_name]
             inc == incOrderIndex(self)
             created == OrderEvent(inc.ret, _event.instrument, MARKET)
         IN IF _event.signal_type = LONG
            THEN RegisterAndSend(inc.self, _event,
                    [created EXCEPT !.action = TickAction(portfolio, _event),
                                    !.direction = BUY,
                                    !.quantity = 1])
            ELSE IF _event.signal_type = SHORT
            THEN RegisterAndSend(inc.self, _event,
                    [created EXCEPT !.action = TickAction(portfolio, _event),
                                    !.direction = SELL,
                                    !.quantity = 1])
            ELSE Result("InvalidEvent", inc.self, NoOrder)

\* -------------------------------------------------- SimpleBarPortfolio
setPriceIndex(self, _index) == [self EXCEPT !.price_index = _index]

BarAction(portfolio, _event) ==
    IF _event.signal_type = LONG
    THEN IF getShortPosition(portfolio, _event.instrument)
              - getCloseSellUnfilledOrder(portfolio, _event.instrument) > 0
         THEN CLOSE ELSE OPEN
    ELSE IF getShortPosition(portfolio, _event.instrument)
              - getCloseBuyUnfilledOrder(portfolio, _event.instrument) > 0
         THEN CLOSE ELSE OPEN

getColumn(data, _index) == data[_index]

\* The first value of the column in place of the last.
BarPrice_First(self, _event) ==
    LET data == InstrumentData[_event.instrument]
    IN <<Head(getColumn(data, self.price_index))>>

BarPrice(self, _event) ==
    LET data == InstrumentData[_event.instrument]
    IN <<Last(getColumn(data, self.price_index))>>

\* dealSignal that records the signal in the book before it looks at its kind.
BarDealSignal_RecordFirst(self, _event) ==
    IF _event.strategy_name \notin DOMAIN self.strategy_portfolio_dict
    THEN Result("UnknownStrategy", self, NoOrder)
    ELSE LET portfolio == self.strategy_portfolio_dict[_event.strategy_name]
             inc == incOrderIndex(self)
             created == OrderEvent(inc.ret, _event.instrument, LIMIT)
         IN IF ~self.engine
            THEN Result("EngineNotSet", inc.self, NoOrder)
            ELSE IF _event.signal_type = LONG
            THEN RegisterAndSend(inc.self, _event,
                    [created EXCEPT !.action = BarAction(portfolio, _event),
                                    !.direction = BUY,
                                    !.price = BarPrice(self, _event)])
            ELSE IF _event.signal_type = SHORT
            THEN RegisterAndSend(inc.self, _event,
                    [created EXCEPT !.action = BarAction(portfolio, _event),
                                    !.direction = SELL,
                                    !.price = BarPrice(self, _event)])
            ELSE Result("InvalidEvent",
                        [inc.self EXCEPT
                            !.strategy_portfolio_dict[_event.strategy_name] =
                                dealSignalEvent(portfolio, _event).book],
                        NoOrder)

BarDealSignal(self, _event) ==
    IF _event.strategy_name \notin DOMAIN self.strategy_portfolio_dict
    THEN Result("UnknownStrategy", self, NoOrder)
    ELSE LET portfolio == self.strategy_portfolio_dict[_event.strategy_name]
             inc == incOrderIndex(self)
             created == OrderEvent(inc.ret, _event.instrument, LIMIT)
         IN IF ~self.engine
            THEN Result("EngineNotSet", inc.self, NoOrder)
            ELSE IF _event.signal_type = LONG
            THEN RegisterAndSend(inc.self, _event,
                    [created EXCEPT !.action = BarAction(portfolio, _event),
                                    !.direction = BUY,
                                    !.price = BarPrice(self, _event)])
            ELSE IF _event.signal_type = SHORT
            THEN RegisterAndSend(inc.self, _event,
                    [created EXCEPT !.action = BarAction(portfolio, _event),
                                    !.direction = SELL,
                                    !.price = BarPrice(self, _event)])
            ELSE Result("InvalidEvent", inc.self, NoOrder)

\* ------------------------------------------------------------ dealFill
getPortfolioByStrategy(self, _strategy_name) ==
    self.strategy_portfolio_dict[_strategy_name]

\* dealFill that returns quietly when the index has no entry in
\* order_strategy_dict.
dealFill_IgnoreUnknown(self, _event) ==
    IF _event.index \notin DOMAIN self.order_strategy_dict
    THEN Result("ok", self, NoOrder)
    ELSE LET name == self.order_strategy_dict[_event.index]
         IN IF name \notin DOMAIN self.strategy_portfolio_dict
            THEN Result("UnknownStrategy", self, NoOrder)
            ELSE LET r == dealFillEvent(getPortfolioByStrategy(self, name),
                                        _event)
                 IN Result(r.err,
                           [self EXCEPT
                               !.strategy_portfolio_dict[name] = r.book],
                           NoOrder)

\* dealFill that hands the fill to one fixed book whatever the map says.
dealFill_FirstBook(self, _event) ==
    IF _event.index \notin DOMAIN self.order_strategy_dict
    THEN Result("UnknownOrder", self, NoOrder)
    ELSE LET name == CHOOSE n \in DOMAIN self.strategy_portfolio_dict : TRUE
         IN IF name \notin DOMAIN self.strategy_portfolio_dict
            THEN Result("UnknownStrategy", self, NoOrder)
            ELSE LET r == dealFillEvent(getPortfolioByStrategy(self, name),
                                        _event)
                 IN Result(r.err,
                           [self EXCEPT
                               !.strategy_portfolio_dict[name] = r.book],
                           NoOrder)

\* dealFill that looks the book up and returns without handing it the fill.
dealFill_Drop(self, _event) ==
    IF _event.index \notin DOMAIN self.order_strategy_dict
    THEN Result("UnknownOrder", self, NoOrder)
    ELSE LET name == self.order_strategy_dict[_event.index]
         IN IF name \notin DOMAIN self.strategy_portfolio_dict
            THEN Result("UnknownStrategy", self, NoOrder)
            ELSE Result("ok", self, NoOrder)

dealFill(self, _event) ==
    IF _event.index \notin DOMAIN self.order_strategy_dict
    THEN Result("UnknownOrder", self, NoOrder)
    ELSE LET name == self.order_strategy_dict[_event.index]
         IN IF name \notin DOMAIN self.strategy_portfolio_dict
            THEN Result("UnknownStrategy", self, NoOrder)
            ELSE LET r == dealFillEvent(getPortfolioByStrategy(self, name),
                                        _event)
                 IN Result(r.err,
                           [self EXCEPT
                               !.strategy_portfolio_dict[name] = r.book],
                           NoOrder)

\* ------------------------------------------------------------- actions
Signals ==
    [strategy_name : Strategies, instrument : Instruments,
     signal_type : SignalTypes]

Fills ==
    [index : 0..MaxOrderIndex, instrument : Instruments,
     action : FillActions, direction : FillDirections,
     quantity : FillQuantities]

FillOf(order) ==
    [index |-> order.index, instrument |-> order.instrument,
     action |-> order.action, direction |-> order.direction,
     quantity |-> order.quantity]

Books == {strategy_portfolio_dict[s] : s \in DOMAIN strategy_portfolio_dict}

Outstanding(index) == \E b \in Books : index \in DOMAIN b.unfilled_order

\* Fills recorded in some book that do not copy the order of their index.
DeviantFills ==
    UNION {{<<s, k>> : k \in
               {n \in 1..Len(strategy_portfolio_dict[s].fill_record) :
                   \A j \in 1..Len(strategy_portfolio_dict[s].order_record) :
                       FillOf(strategy_portfolio_dict[s].order_record[j])
                           # strategy_portfolio_dict[s].fill_record[n]}} :
           s \in DOMAIN strategy_portfolio_dict}

SignalBudget ==
    IF DeviantFills # {} THEN MaxDeviantOrderIndex
    ELSE IF policy = "bar" THEN MaxBarOrderIndex
    ELSE MaxOrderIndex

Commit(op, r, event) ==
    /\ engine' = r.self.engine
    /\ engine_events' = r.self.engine_events
    /\ order_index' = r.self.order_index
    /\ order_strategy_dict' = r.self.order_strategy_dict
    /\ strategy_portfolio_dict' = r.self.strategy_portfolio_dict
    /\ price_index' = r.self.price_index
    /\ last' = [op |-> op, status |-> r.status, event |-> event,
                order |-> r.order, calls |-> r.calls]
    /\ UNCHANGED <<policy, global_portfolio>>

SetEngine ==
    /\ ~engine
    /\ Commit("_setEngine", Result("ok", [Self EXCEPT !.engine = TRUE], NoOrder),
              NoEvent)

AddStrategy ==
    \E name \in Strategies :
        Commit("addStrategy", addStrategy(Self, name),
               [strategy_name |-> name])

SetPriceIndex ==
    /\ policy = "bar"
    /\ \E c \in PriceColumns :
          /\ c # price_index
          /\ Commit("setPriceIndex",
                    Result("ok", setPriceIndex(Self, c), NoOrder),
                    [price_index |-> c])

TickSignal ==
    /\ policy = "tick"
    /\ order_index < SignalBudget
    /\ \E ev \in Signals :
          Commit("dealSignal", TickDealSignal(Self, ev), ev)

BarSignal ==
    /\ policy = "bar"
    /\ order_index < SignalBudget
    /\ \E ev \in Signals :
          Commit("dealSignal", BarDealSignal(Self, ev), ev)

\* The engine delivers a fill that copies an order it was handed and that
\* is still outstanding.
FillCopy ==
    \E k \in 1..Len(engine_events) :
        /\ Outstanding(engine_events[k].index)
        /\ Commit("dealFill", dealFill(Self, FillOf(engine_events[k])),
                  FillOf(engine_events[k]))

\* Every other fill the engine may deliver: for an outstanding index, any
\* content that is not a copy of the order; for an index that is not
\* outstanding (never issued, or already filled) dealFill fails before it
\* reads the content, so one content per index stands for all.
OtherFills ==
    {f \in Fills :
        IF Outstanding(f.index)
        THEN /\ order_index <= MaxDeviantOrderIndex
             /\ \A k \in 1..Len(engine_events) : f # FillOf(engine_events[k])
        ELSE /\ f.instrument = "X" /\ f.action = OPEN
             /\ f.direction = BUY /\ f.quantity = 1}

FillOther ==
    /\ Cardinality(DeviantFills) < MaxDeviantFills
    /\ \E f \in OtherFills : Commit("dealFill", dealFill(Self, f), f)

Init ==
    /\ policy \in {"tick", "bar"}
    /\ engine = FALSE
    /\ engine_events = <<>>
    /\ order_index = 0
    /\ order_strategy_dict = EmptyDict
    /\ strategy_portfolio_dict = EmptyDict
    /\ global_portfolio = PortfolioPerStrategy
    /\ price_index = "closeprice"
    /\ last = [op |-> "init", status |-> "ok", event |-> NoEvent,
               order |-> NoOrder, calls |-> <<>>]

Next ==
    \/ SetEngine
    \/ AddStrategy
    \/ SetPriceIndex
    \/ TickSignal
    \/ BarSignal
    \/ FillCopy
    \/ FillOther

Spec == Init /\ [][Next]_vars

\* SimpleTickPortfolio with an engine that fills the orders it was handed.
InitTick == Init /\ policy = "tick"

NextTick ==
    \/ SetEngine
    \/ AddStrategy
    \/ TickSignal
    \/ FillCopy

SpecTick == InitTick /\ [][NextTick]_vars

\* SimpleBarPortfolio with an engine that fills the orders it was handed.
InitBar == Init /\ policy = "bar"

NextBar ==
    \/ SetEngine
    \/ AddStrategy
    \/ SetPriceIndex
    \/ BarSignal
    \/ FillCopy

SpecBar == InitBar /\ [][NextBar]_vars

\* ------------------------------------- PortfolioPerStrategy called directly
\* The methods of a registered strategy's book called by a client of the book
\* itself, without the manager's counter, map and engine.
BookStrategies == {"A"}

BookOrders ==
    [index : 0..MaxBookIndex, instrument : Instruments, order_type : {MARKET},
     action : {OPEN, CLOSE}, direction : {BUY, SELL},
     quantity : {1}, price : {NoPrice}]

\* The units held by a book over all instruments and sides.
RECURSIVE SumPosition(_, _)
SumPosition(book, keys) ==
    IF keys = {} THEN 0
    ELSE LET k == CHOOSE x \in keys : TRUE
         IN book.position[k][LONG] + book.position[k][SHORT]
                + SumPosition(book, keys \ {k})

CommitBook(op, s, r, event) ==
    Commit(op,
           Result(r.err, [Self EXCEPT !.strategy_portfolio_dict[s] = r.book],
                  NoOrder),
           event)

BookCreate ==
    \E name \in BookStrategies :
        /\ name \notin DOMAIN strategy_portfolio_dict
        /\ Commit("addStrategy", addStrategy(Self, name),
                  [strategy_name |-> name])

BookIncPosition ==
    \E s \in DOMAIN strategy_portfolio_dict, i \in Instruments,
       t \in SignalTypes, q \in FillQuantities :
        /\ SumPosition(strategy_portfolio_dict[s],
                       DOMAIN strategy_portfolio_dict[s].position) + q
               <= MaxBookPosition
        /\ CommitBook("incPosition", s,
                      incPosition(strategy_portfolio_dict[s], i, t, q),
                      [strategy_name |-> s, instrument |-> i, type |-> t,
                       quantity |-> q])

BookDecPosition ==
    \E s \in DOMAIN strategy_portfolio_dict, i \in Instruments,
       t \in SignalTypes, q \in FillQuantities :
        CommitBook("decPosition", s,
                   decPosition(strategy_portfolio_dict[s], i, t, q),
                   [strategy_name |-> s, instrument |-> i, type |-> t,
                    quantity |-> q])

BookOrderEvent ==
    \E s \in DOMAIN strategy_portfolio_dict, o \in BookOrders :
        /\ Len(strategy_portfolio_dict[s].order_record) < MaxBookOrders
        /\ CommitBook("dealOrderEvent", s,
                      dealOrderEvent(strategy_portfolio_dict[s], o),
                      [strategy_name |-> s, order |-> o])

BookFillEvent ==
    \E s \in DOMAIN strategy_portfolio_dict :
        \E k \in DOMAIN strategy_portfolio_dict[s].unfilled_order :
            LET f == FillOf(strategy_portfolio_dict[s].unfilled_order[k])
            IN CommitBook("dealFillEvent", s,
                          dealFillEvent(strategy_portfolio_dict[s], f),
                          [strategy_name |-> s, fill |-> f])

InitBook == Init /\ policy = "tick"

NextBook ==
    \/ BookCreate
    \/ BookIncPosition
    \/ BookDecPosition
    \/ BookOrderEvent
    \/ BookFillEvent

SpecBook == InitBook /\ [][NextBook]_vars

\* ------------------------------------------------- queries on a book
\* A query seen as a whole call: the value it returns and the book it leaves.
Returned(book, value) == [err |-> "ok", book |-> book, ret |-> value]

\* getUnfilledOrder that leaves the instrument out of its test.
QueryUnfilledOrder_AnyInstrument(book, _instrument, _action, _direction) ==
    Returned(book,
             SumQuantity(book.unfilled_order,
                         {k \in DOMAIN book.unfilled_order :
                             /\ book.unfilled_order[k].action = _action
                             /\ book.unfilled_order[k].direction = _direction}))

QueryUnfilledOrder(book, _instrument, _action, _direction) ==
    Returned(book, getUnfilledOrder(book, _instrument, _action, _direction))

GetUnfilledOrder ==
    \E s \in DOMAIN strategy_portfolio_dict, i \in Instruments,
       a \in {OPEN, CLOSE}, d \in {BUY, SELL} :
        LET r == QueryUnfilledOrder(strategy_portfolio_dict[s], i, a, d)
        IN CommitBook("getUnfilledOrder", s, r,
                      [strategy_name |-> s, instrument |-> i, action |-> a,
                       direction |-> d, ret |-> r.ret])

\* SimpleTickPortfolio whose books are queried between the events.
NextQuery ==
    \/ SetEngine
    \/ AddStrategy
    \/ TickSignal
    \/ FillCopy
    \/ GetUnfilledOrder

SpecQuery == InitTick /\ [][NextQuery]_vars

\* getPosition that creates the record of an instrument it does not find.
QueryPosition_CreatesRecord(book, _instrument, _type) ==
    IF _instrument \in DOMAIN book.position
    THEN Returned(book, book.position[_instrument][_type])
    ELSE Returned([book EXCEPT !.position =
                      Put(@, _instrument, [LONG |-> 0, SHORT |-> 0])],
                  0)

QueryPosition(book, _instrument, _type) ==
    Returned(book, getPosition(book, _instrument, _type))

QueryLongPosition(book, _instrument) == QueryPosition(book, _instrument, LONG)

QueryShortPosition(book, _instrument) ==
    QueryPosition(book, _instrument, SHORT)

GetPosition ==
    \E s \in DOMAIN strategy_portfolio_dict, i \in Instruments,
       t \in {LONG, SHORT} :
        LET r == QueryPosition(strategy_portfolio_dict[s], i, t)
        IN CommitBook("getPosition", s, r,
                      [strategy_name |-> s, instrument |-> i, type |-> t,
                       ret |-> r.ret])

GetLongPosition ==
    \E s \in DOMAIN strategy_portfolio_dict, i \in Instruments :
        LET r == QueryLongPosition(strategy_portfolio_dict[s], i)
        IN CommitBook("getLongPosition", s, r,
                      [strategy_name |-> s, instrument |-> i, type |-> LONG,
                       ret |-> r.ret])

GetShortPosition ==
    \E s \in DOMAIN strategy_portfolio_dict, i \in Instruments :
        LET r == QueryShortPosition(strategy_portfolio_dict[s], i)
        IN CommitBook("getShortPosition", s, r,
                      [strategy_name |-> s, instrument |-> i, type |-> SHORT,
                       ret |-> r.ret])

\* SimpleTickPortfolio whose books' positions are queried between the events.
NextPosition ==
    \/ SetEngine
    \/ AddStrategy
    \/ TickSignal
    \/ FillCopy
    \/ GetPosition
    \/ GetLongPosition
    \/ GetShortPosition

SpecPosition == InitTick /\ [][NextPosition]_vars

\* ------------------------------------ a run of the tick policy to its end
\* A bounded sequence of LONG / SHORT signals for registered strategies,
\* emitted once the engine is bound, and an engine that does not withhold
\* for ever the fill of an order it was handed.
LiveSignal ==
    /\ policy = "tick"
    /\ engine
    /\ order_index < MaxOrderIndex
    /\ \E ev \in Signals :
          /\ ev.strategy_name \in DOMAIN strategy_portfolio_dict
          /\ ev.signal_type \in {LONG, SHORT}
          /\ Commit("dealSignal", TickDealSignal(Self, ev), ev)

NextLive ==
    \/ SetEngine
    \/ AddStrategy
    \/ LiveSignal
    \/ FillCopy

SpecLive == InitTick /\ [][NextLive]_vars /\ WF_vars(FillCopy)

\* ------------------------------------------- runs without a failed call
\* The runs of Spec in which every call returned normally.
Completed == last'.status = "ok"

NextOk ==
    \/ SetEngine /\ Completed
    \/ AddStrategy /\ Completed
    \/ SetPriceIndex /\ Completed
    \/ TickSignal /\ Completed
    \/ BarSignal /\ Completed
    \/ FillCopy /\ Completed
    \/ FillOther /\ Completed

SpecOk == Init /\ [][NextOk]_vars

\* =================================================== checked properties
Registered == DOMAIN strategy_portfolio_dict

Book(s) == strategy_portfolio_dict[s]

\* <<strategy, k>> for the k-th order recorded in the strategy's book.
RecordedOrders ==
    UNION {{<<s, k>> : k \in 1..Len(Book(s).order_record)} : s \in Registered}

OrderAt(sk) == Book(sk[1]).order_record[sk[2]]

SignalOk(l) == l.op = "dealSignal" /\ l.status = "ok"

FillDone(l) == l.op = "dealFill" /\ l.status = "ok"

\* C1: no two orders recorded in any books carry the same index; the indices
\* handed to the engine are strictly increasing and below the counter.
C1_UniqueOrderIndex ==
    /\ \A a \in RecordedOrders, b \in RecordedOrders :
          a # b => OrderAt(a).index # OrderAt(b).index
    /\ \A j \in 1..Len(engine_events) :
          /\ engine_events[j].index < order_index
          /\ \A k \in 1..Len(engine_events) :
                j < k => engine_events[j].index < engine_events[k].index

C1_Witness ==
    /\ Len(engine_events) >= 2
    /\ \E a \in RecordedOrders, b \in RecordedOrders : a[1] # b[1]

\* C2: in every book the long and the short position of every instrument
\* that has a position record are >= 0.
C2_PositionNonNegative ==
    \A s \in Registered : \A i \in DOMAIN Book(s).position :
        /\ Book(s).position[i][LONG] >= 0
        /\ Book(s).position[i][SHORT] >= 0

\* A closing fill has brought a side back to 0.
C2_Witness ==
    /\ FillDone(last)
    /\ last.event.action = CLOSE
    /\ \E s \in Registered :
          /\ last.event.instrument \in DOMAIN Book(s).position
          /\ Len(Book(s).fill_record) >= 2
          /\ Last(Book(s).fill_record) = last.event
          /\ Book(s).position[last.event.instrument] =
                [LONG |-> 0, SHORT |-> 0]

\* The outstanding closing orders of every book are covered by its position.
CloseReserved ==
    \A s \in Registered : \A i \in Instruments :
        /\ getCloseBuyUnfilledOrder(Book(s), i) <= getShortPosition(Book(s), i)
        /\ getCloseSellUnfilledOrder(Book(s), i) <= getLongPosition(Book(s), i)

NoInsufficientPosition ==
    last.op = "dealFill" => last.status # "InsufficientPosition"

\* C3: tick policy, engine filling outstanding orders: outstanding CLOSE/BUY
\* quantity <= short position, outstanding CLOSE/SELL quantity <= long
\* position, and no fill fails with InsufficientPosition.
C3_TickCloseReserved == policy = "tick" => CloseReserved /\ NoInsufficientPosition

\* The whole short position is reserved by an outstanding CLOSE/BUY order and
\* the next LONG signal on that instrument was answered with OPEN.
C3_Witness ==
    /\ policy = "tick"
    /\ SignalOk(last)
    /\ last.event.signal_type = LONG
    /\ last.order.action = OPEN
    /\ LET b == Book(last.event.strategy_name)
           i == last.event.instrument
       IN /\ getShortPosition(b, i) > 0
          /\ getCloseBuyUnfilledOrder(b, i) = getShortPosition(b, i)

\* C4: bar policy, engine filling outstanding orders: outstanding CLOSE/BUY
\* quantity <= short position, outstanding CLOSE/SELL quantity <= long
\* position, and no fill fails with InsufficientPosition.
C4_BarCloseReserved == policy = "bar" => CloseReserved /\ NoInsufficientPosition

\* The (action, direction) of section 4.2 for a LONG or SHORT signal on a book.
RuleAction(b, ev) ==
    IF ev.signal_type = LONG
    THEN IF getPosition(b, ev.instrument, SHORT)
              - getUnfilledOrder(b, ev.instrument, CLOSE, BUY) > 0
         THEN CLOSE ELSE OPEN
    ELSE IF getPosition(b, ev.instrument, LONG)
              - getUnfilledOrder(b, ev.instrument, CLOSE, SELL) > 0
         THEN CLOSE ELSE OPEN

RuleDirection(ev) == IF ev.signal_type = LONG THEN BUY ELSE SELL

\* C5: every order the tick policy's dealSignal builds is MARKET, quantity 1,
\* no price, direction BUY for LONG and SELL for SHORT, and CLOSE exactly when
\* the opposite position minus the outstanding closing orders of that
\* direction, taken in the book before the call, is > 0 (else OPEN).
C5_TickDecisionRule ==
    [][(policy = "tick" /\ SignalOk(last')) =>
          LET ev == last'.event
              o == last'.order
              b == Book(ev.strategy_name)
          IN /\ ev.signal_type \in {LONG, SHORT}
             /\ o.order_type = MARKET
             /\ o.quantity = 1
             /\ o.price = NoPrice
             /\ o.instrument = ev.instrument
             /\ o.direction = RuleDirection(ev)
             /\ o.action = RuleAction(b, ev)
             /\ o.action \in {OPEN, CLOSE}]_vars

\* A LONG signal on a short position with no outstanding close-buy order was
\* answered with CLOSE/BUY/1.
C5_Witness ==
    /\ policy = "tick"
    /\ SignalOk(last)
    /\ last.event.signal_type = LONG
    /\ last.order.action = CLOSE
    /\ last.order.direction = BUY
    /\ last.order.quantity = 1
    /\ getCloseBuyUnfilledOrder(Book(last.event.strategy_name),
                                last.event.instrument) = 1

\* C6: every order the bar policy's dealSignal builds has the (action,
\* direction) of the rule of section 4.2, which is the tick policy's choice
\* on the same book and signal.
C6_BarDecisionRule ==
    [][(policy = "bar" /\ SignalOk(last')) =>
          LET ev == last'.event
              o == last'.order
              b == Book(ev.strategy_name)
          IN /\ o.direction = RuleDirection(ev)
             /\ o.action = RuleAction(b, ev)
             /\ o.action = TickAction(b, ev)]_vars

\* C7: every order the bar policy's dealSignal builds is LIMIT with quantity
\* 1 and the last value of the configured price column of its instrument as
\* price, and so passes addEvent's checks (quantity > 0, price present).
C7_BarLimitOrder ==
    (policy = "bar" /\ SignalOk(last)) =>
        LET o == last.order
        IN /\ o.order_type = LIMIT
           /\ o.quantity = 1
           /\ o.price = <<Last(InstrumentData[o.instrument][price_index])>>
           /\ o.quantity > 0
           /\ o.price # NoPrice
           /\ Last(engine_events) = o

C7_Witness ==
    /\ policy = "bar"
    /\ SignalOk(last)
    /\ price_index = "openprice"
    /\ last.order.price = <<13>>

\* The change of a side of a position that the reconciliation table assigns
\* to a fill.
TableDelta(f, i, t) ==
    IF i # f.instrument THEN 0
    ELSE IF f.action = OPEN /\ f.direction = BUY /\ t = LONG THEN f.quantity
    ELSE IF f.action = OPEN /\ f.direction = SELL /\ t = SHORT THEN f.quantity
    ELSE IF f.action = CLOSE /\ f.direction = BUY /\ t = SHORT
    THEN 0 - f.quantity
    ELSE IF f.action = CLOSE /\ f.direction = SELL /\ t = LONG
    THEN 0 - f.quantity
    ELSE 0

\* C8: a successful fill changes the position of its book exactly by the
\* reconciliation table, on the fill's instrument and side only, and its
\* index is no longer outstanding.
C8_FillReconciliation ==
    [][FillDone(last') =>
          LET f == last'.event
              s == order_strategy_dict[f.index]
          IN /\ f.index \in DOMAIN Book(s).unfilled_order
             /\ f.index \notin DOMAIN strategy_portfolio_dict'[s].unfilled_order
             /\ \A i \in Instruments : \A t \in {LONG, SHORT} :
                   getPosition(strategy_portfolio_dict'[s], i, t) =
                       getPosition(Book(s), i, t) + TableDelta(f, i, t)]_vars

\* A fill OPEN/BUY of quantity 2 was reconciled.
C8_Witness ==
    /\ FillDone(last)
    /\ last.event.action = OPEN
    /\ last.event.direction = BUY
    /\ last.event.quantity = 2
    /\ getLongPosition(Book(order_strategy_dict[last.event.index]),
                       last.event.instrument) = 2

\* C9: dealFillEvent on the book a fill is routed to fails with UnknownOrder
\* and leaves the book as it was when the index is not outstanding there;
\* when it is, exactly that index leaves the outstanding set.
C9_FillUnknownOrder ==
    [][(last'.op = "dealFill"
        /\ last'.event.index \in DOMAIN order_strategy_dict) =>
          LET f == last'.event
              s == order_strategy_dict[f.index]
              before == Book(s).unfilled_order
              after == strategy_portfolio_dict'[s].unfilled_order
          IN IF f.index \notin DOMAIN before
             THEN /\ last'.status = "UnknownOrder"
                  /\ strategy_portfolio_dict'[s] = Book(s)
             ELSE /\ last'.status # "UnknownOrder"
                  /\ DOMAIN after = (DOMAIN before) \ {f.index}
                  /\ \A k \in DOMAIN after : after[k] = before[k]]_vars

\* A fill for an index that is no longer outstanding failed with
\* UnknownOrder while another order of the book is outstanding.
C9_Witness ==
    /\ last.op = "dealFill"
    /\ last.status = "UnknownOrder"
    /\ last.event.index \in DOMAIN order_strategy_dict
    /\ DOMAIN Book(order_strategy_dict[last.event.index]).unfilled_order # {}

\* The indices of the fills recorded in the books: every fill dealFill
\* accepted is recorded, so these are all indices already filled.
FilledIndices ==
    UNION {{Book(s).fill_record[k].index : k \in 1..Len(Book(s).fill_record)} :
           s \in Registered}

Positions == [s \in Registered |-> Book(s).position]

\* <<strategy, k>> for the k-th fill recorded in the strategy's book.
RecordedFills ==
    UNION {{<<s, k>> : k \in 1..Len(Book(s).fill_record)} : s \in Registered}

\* No index is recorded in two fills.
FilledOnce == Cardinality(RecordedFills) = Cardinality(FilledIndices)

\* C10: an index is reconciled at most once: once a fill for index i has
\* been accepted, i stays in the index->strategy map, is recorded in the
\* fill histories exactly once, and every later dealFill for i fails with
\* UnknownOrder and changes no position.
C10_FillAtMostOnce ==
    [][/\ FilledOnce'
       /\ FilledIndices' \subseteq DOMAIN order_strategy_dict'
       /\ \A i \in FilledIndices :
             /\ i \in DOMAIN order_strategy_dict'
             /\ (last'.op = "dealFill" /\ last'.event.index = i) =>
                   /\ last'.status = "UnknownOrder"
                   /\ Positions' = Positions]_vars

\* A second fill for an index whose first fill was reconciled into a
\* position has failed.
C10_Witness ==
    /\ last.op = "dealFill"
    /\ last.status = "UnknownOrder"
    /\ last.event.index \in FilledIndices
    /\ getLongPosition(Book(order_strategy_dict[last.event.index]),
                       last.event.instrument) = 1

\* C11: after every call, completed or failed, every index outstanding in a
\* strategy's book is a key of order_strategy_dict and maps to that strategy.
C11_OutstandingMapped ==
    \A s \in Registered : \A i \in DOMAIN Book(s).unfilled_order :
        /\ i \in DOMAIN order_strategy_dict
        /\ order_strategy_dict[i] = s

\* Both books hold an outstanding order and the last call failed.
C11_Witness ==
    /\ last.status # "ok"
    /\ last.op \in {"dealSignal", "dealFill"}
    /\ \A s \in Strategies :
          s \in Registered /\ DOMAIN Book(s).unfilled_order # {}

\* The position of a call in the calls the last operation made (0: not made).
CallAt(c) ==
    IF \E k \in DOMAIN last.calls : last.calls[k] = c
    THEN CHOOSE k \in DOMAIN last.calls : last.calls[k] = c
    ELSE 0

\* C12: in a dealSignal that reaches the book's dealOrderEvent, the order's
\* well-formedness has been checked and its index->strategy entry recorded
\* before dealOrderEvent is called.
C12_ValidateBeforeBook ==
    (last.op = "dealSignal" /\ CallAt("dealOrderEvent") > 0)
        => /\ CallAt("addEvent.check") > 0
           /\ CallAt("addEvent.map") > 0
           /\ CallAt("addEvent.check") < CallAt("dealOrderEvent")
           /\ CallAt("addEvent.map") < CallAt("dealOrderEvent")

\* C13: decPosition(instrument, side, q) with q > 0 fails with
\* InsufficientPosition when the side holds less than q, the instrument
\* having a record or not, and then leaves the position map as it was;
\* otherwise it subtracts exactly q from that side and changes no other
\* side or instrument.
C13_DecPosition ==
    [][(last'.op = "decPosition" /\ last'.event.type \in {LONG, SHORT})
        => LET ev == last'.event
               before == strategy_portfolio_dict[ev.strategy_name].position
               after == strategy_portfolio_dict'[ev.strategy_name].position
               held == IF ev.instrument \in DOMAIN before
                       THEN before[ev.instrument][ev.type] ELSE 0
           IN IF held < ev.quantity
              THEN /\ last'.status = "InsufficientPosition"
                   /\ after = before
              ELSE /\ last'.status = "ok"
                   /\ after = [before EXCEPT
                                  ![ev.instrument][ev.type] = @ - ev.quantity]
      ]_vars

\* decPosition of 2 failed on a long side of 1, which still holds 1, while
\* the other instrument has no record.
C13_Witness ==
    /\ last.op = "decPosition"
    /\ last.status = "InsufficientPosition"
    /\ last.event.type = LONG
    /\ last.event.quantity = 2
    /\ DOMAIN Book(last.event.strategy_name).position = {last.event.instrument}
    /\ getLongPosition(Book(last.event.strategy_name),
                       last.event.instrument) = 1

\* C14: dealOrderEvent fails with DuplicateOrderIndex when the order's index
\* is outstanding in the book and then leaves the book as it was; otherwise
\* it appends the order to order_record, inserts it into unfilled_order under
\* its index and changes no position, signal_record or fill_record.
C14_DealOrderEvent ==
    [][last'.op = "dealOrderEvent"
        => LET o == last'.event.order
               before == strategy_portfolio_dict[last'.event.strategy_name]
               after == strategy_portfolio_dict'[last'.event.strategy_name]
           IN IF o.index \in DOMAIN before.unfilled_order
              THEN /\ last'.status = "DuplicateOrderIndex"
                   /\ after = before
              ELSE /\ last'.status = "ok"
                   /\ after.order_record = Append(before.order_record, o)
                   /\ after.unfilled_order =
                          Put(before.unfilled_order, o.index, o)
                   /\ after.position = before.position
                   /\ after.signal_record = before.signal_record
                   /\ after.fill_record = before.fill_record
      ]_vars

\* An order was refused for its index while a different order of that index
\* is outstanding in a book that holds a position.
C14_Witness ==
    /\ last.op = "dealOrderEvent"
    /\ last.status = "DuplicateOrderIndex"
    /\ LET b == Book(last.event.strategy_name)
       IN /\ last.event.order.index \in DOMAIN b.unfilled_order
          /\ b.unfilled_order[last.event.order.index] # last.event.order
          /\ Len(b.order_record) = 1
          /\ DOMAIN b.position # {}

\* C15: addStrategy with a registered name fails with DuplicateStrategy and
\* leaves that name's book, and every other, as it was; with a new name it
\* creates a book with no position, no outstanding order and empty histories
\* and leaves every other book unchanged.
C15_AddStrategy ==
    [][last'.op = "addStrategy"
        => LET name == last'.event.strategy_name
           IN IF name \in DOMAIN strategy_portfolio_dict
              THEN /\ last'.status = "DuplicateStrategy"
                   /\ strategy_portfolio_dict' = strategy_portfolio_dict
              ELSE /\ last'.status = "ok"
                   /\ DOMAIN strategy_portfolio_dict' =
                          DOMAIN strategy_portfolio_dict \cup {name}
                   /\ strategy_portfolio_dict'[name].position = EmptyDict
                   /\ strategy_portfolio_dict'[name].unfilled_order = EmptyDict
                   /\ strategy_portfolio_dict'[name].signal_record = <<>>
                   /\ strategy_portfolio_dict'[name].order_record = <<>>
                   /\ strategy_portfolio_dict'[name].fill_record = <<>>
                   /\ \A s \in DOMAIN strategy_portfolio_dict :
                          strategy_portfolio_dict'[s] =
                              strategy_portfolio_dict[s]
      ]_vars

\* A second registration of a name was refused while that name's book holds
\* a position, an outstanding order and a recorded fill.
C15_Witness ==
    /\ last.op = "addStrategy"
    /\ last.status = "DuplicateStrategy"
    /\ LET b == Book(last.event.strategy_name)
       IN /\ DOMAIN b.position # {}
          /\ DOMAIN b.unfilled_order # {}
          /\ Len(b.fill_record) > 0
          /\ Len(b.signal_record) > 1

\* C16: dealSignal for a strategy name that is not registered fails and
\* changes nothing: order_index, order_strategy_dict and every book are as
\* before and nothing is handed to the engine. The failure is UnknownStrategy
\* whenever the engine is bound, and in the bar policy in any case.
C16_UnknownStrategy ==
    [][(/\ last'.op = "dealSignal"
        /\ last'.event.strategy_name \notin DOMAIN strategy_portfolio_dict)
        => /\ last'.status # "ok"
           /\ (engine \/ policy = "bar") => last'.status = "UnknownStrategy"
           /\ order_index' = order_index
           /\ order_strategy_dict' = order_strategy_dict
           /\ strategy_portfolio_dict' = strategy_portfolio_dict
           /\ engine_events' = engine_events
      ]_vars

\* A signal for an unregistered strategy was refused while the other
\* strategy holds a position and an outstanding order.
C16_Witness ==
    /\ last.op = "dealSignal"
    /\ last.status = "UnknownStrategy"
    /\ last.event.strategy_name \notin Registered
    /\ engine
    /\ order_index = 2
    /\ \E s \in Registered :
          /\ DOMAIN Book(s).position # {}
          /\ DOMAIN Book(s).unfilled_order # {}

\* C17: dealFill with an index that is not a key of order_strategy_dict fails
\* with UnknownOrder and leaves every book's position, unfilled_order and
\* fill_record unchanged.
C17_FillUnmappedIndex ==
    [][(/\ last'.op = "dealFill"
        /\ last'.event.index \notin DOMAIN order_strategy_dict)
        => /\ last'.status = "UnknownOrder"
           /\ \A s \in DOMAIN strategy_portfolio_dict :
                 /\ strategy_portfolio_dict'[s].position =
                        strategy_portfolio_dict[s].position
                 /\ strategy_portfolio_dict'[s].unfilled_order =
                        strategy_portfolio_dict[s].unfilled_order
                 /\ strategy_portfolio_dict'[s].fill_record =
                        strategy_portfolio_dict[s].fill_record
      ]_vars

\* A fill for an index the manager never issued was refused while a book
\* holds a position, an outstanding order and a recorded fill.
C17_Witness ==
    /\ last.op = "dealFill"
    /\ last.status = "UnknownOrder"
    /\ last.event.index \notin DOMAIN order_strategy_dict
    /\ \E s \in Registered :
          /\ DOMAIN Book(s).position # {}
          /\ DOMAIN Book(s).unfilled_order # {}
          /\ Len(Book(s).fill_record) > 0

\* C18: in both policies dealSignal with a signal whose kind is neither LONG
\* nor SHORT fails: the signal is not appended to signal_record, no order
\* enters an order_record or unfilled_order, no order_strategy_dict entry is
\* recorded and nothing is handed to the engine. The failure is InvalidEvent
\* whenever the strategy is registered and the engine is bound.
C18_UnknownSignalKind ==
    [][(/\ last'.op = "dealSignal"
        /\ last'.event.signal_type \notin {LONG, SHORT})
        => /\ last'.status # "ok"
           /\ (/\ engine
               /\ last'.event.strategy_name \in DOMAIN strategy_portfolio_dict)
                  => last'.status = "InvalidEvent"
           /\ strategy_portfolio_dict' = strategy_portfolio_dict
           /\ order_strategy_dict' = order_strategy_dict
           /\ engine_events' = engine_events
      ]_vars

\* A signal of an unknown kind was refused for a strategy whose book already
\* holds a recorded signal and an outstanding order.
C18_Witness ==
    /\ last.op = "dealSignal"
    /\ last.status = "InvalidEvent"
    /\ last.event.signal_type \notin {LONG, SHORT}
    /\ last.event.strategy_name \in Registered
    /\ Len(Book(last.event.strategy_name).signal_record) = 1
    /\ DOMAIN Book(last.event.strategy_name).unfilled_order # {}
    /\ order_index = 2

\* The strategies whose book recorded an order of this index: the strategy
\* whose signal produced the order.
Producers(index) ==
    {s \in DOMAIN strategy_portfolio_dict :
        \E k \in 1..Len(strategy_portfolio_dict[s].order_record) :
            strategy_portfolio_dict[s].order_record[k].index = index}

\* C19: dealFill for index i changes no book but that of the strategy whose
\* signal produced order i, and takes i out of that book's unfilled_order
\* when it is outstanding there; dealSignal for a strategy changes no book
\* but that strategy's.
C19_BookIndependence ==
    [][/\ last'.op = "dealFill"
          => \A s \in DOMAIN strategy_portfolio_dict :
                /\ s \notin Producers(last'.event.index)
                      => strategy_portfolio_dict'[s] =
                             strategy_portfolio_dict[s]
                /\ last'.event.index
                        \in DOMAIN strategy_portfolio_dict[s].unfilled_order
                      => strategy_portfolio_dict'[s].unfilled_order =
                             Del(strategy_portfolio_dict[s].unfilled_order,
                                 last'.event.index)
       /\ last'.op = "dealSignal"
          => \A s \in DOMAIN strategy_portfolio_dict :
                s # last'.event.strategy_name
                    => strategy_portfolio_dict'[s] = strategy_portfolio_dict[s]
      ]_vars

\* A fill was reconciled into its strategy's book while the other strategy's
\* book holds a position and an outstanding order of its own.
C19_Witness ==
    /\ last.op = "dealFill"
    /\ last.status = "ok"
    /\ Producers(last.event.index) = {order_strategy_dict[last.event.index]}
    /\ Last(Book(order_strategy_dict[last.event.index]).fill_record)
           = last.event
    /\ \E s \in Registered :
          /\ s # order_strategy_dict[last.event.index]
          /\ DOMAIN Book(s).position # {}
          /\ DOMAIN Book(s).unfilled_order # {}

\* The incPosition / decPosition call the reconciliation table assigns to a
\* fill, made on a book.
ReplayCall(book, f) ==
    IF f.action = OPEN /\ f.direction = BUY
    THEN incPosition(book, f.instrument, LONG, f.quantity)
    ELSE IF f.action = OPEN /\ f.direction = SELL
    THEN incPosition(book, f.instrument, SHORT, f.quantity)
    ELSE IF f.action = CLOSE /\ f.direction = BUY
    THEN decPosition(book, f.instrument, SHORT, f.quantity)
    ELSE IF f.action = CLOSE /\ f.direction = SELL
    THEN decPosition(book, f.instrument, LONG, f.quantity)
    ELSE Fail("InvalidEvent", book)

\* The first n fills of a history replayed, in order, on a fresh book.
RECURSIVE Replay(_, _)
Replay(fills, n) ==
    IF n = 0 THEN Ok(PortfolioPerStrategy)
    ELSE LET r == Replay(fills, n - 1)
         IN IF r.err # "ok" THEN r ELSE ReplayCall(r.book, fills[n])

\* C20: in a run whose calls all completed without failure, replaying a
\* book's fill_record in order through the table's incPosition / decPosition
\* calls on an empty position map never fails and ends with exactly the
\* book's position.
C20_Replay ==
    \A s \in Registered :
        LET r == Replay(Book(s).fill_record, Len(Book(s).fill_record))
        IN /\ r.err = "ok"
           /\ r.book.position = Book(s).position

\* A book whose history is an opening fill of 2 and a closing fill after it
\* that left a position behind.
C20_Witness ==
    \E s \in Registered :
        /\ Len(Book(s).fill_record) = 2
        /\ Book(s).fill_record[1].action = OPEN
        /\ Book(s).fill_record[1].quantity = 2
        /\ Book(s).fill_record[2].action = CLOSE
        /\ \E i \in DOMAIN Book(s).position :
              Book(s).position[i][LONG] + Book(s).position[i][SHORT] > 0

\* The units all registered strategies' books hold of an instrument's side.
RECURSIVE SumOverBooks(_, _, _)
SumOverBooks(names, i, t) ==
    IF names = {} THEN 0
    ELSE LET n == CHOOSE x \in names : TRUE
         IN getPosition(Book(n), i, t) + SumOverBooks(names \ {n}, i, t)

\* C21: the manager reconciles every fill into global_portfolio as well: for
\* each instrument the long and the short position of global_portfolio are
\* the sums of the strategies' long and short positions.
C21_GlobalPosition ==
    \A i \in Instruments : \A t \in {LONG, SHORT} :
        getPosition(global_portfolio, i, t) = SumOverBooks(Registered, i, t)

\* The quantities of the first n recorded orders of a book that match the
\* three filters and whose index has no recorded fill.
RECURSIVE MatchingUnfilled(_, _, _, _, _)
MatchingUnfilled(b, i, a, d, n) ==
    IF n = 0 THEN 0
    ELSE MatchingUnfilled(b, i, a, d, n - 1)
         + (IF /\ b.order_record[n].instrument = i
               /\ b.order_record[n].action = a
               /\ b.order_record[n].direction = d
               /\ \A j \in 1..Len(b.fill_record) :
                     b.fill_record[j].index # b.order_record[n].index
            THEN b.order_record[n].quantity ELSE 0)

\* C22: getUnfilledOrder(instrument, action, direction) returns the sum of the
\* quantities of exactly the outstanding orders that match all three
\* arguments, 0 when there is none; filled orders and orders of other
\* instruments do not contribute, the four named variants return the same
\* sums, and the call changes no state.
C22_GetUnfilledOrder ==
    [][last'.op = "getUnfilledOrder"
        => LET ev == last'.event
               b == strategy_portfolio_dict[ev.strategy_name]
           IN /\ ev.ret = MatchingUnfilled(b, ev.instrument, ev.action,
                                           ev.direction, Len(b.order_record))
              /\ (ev.action = OPEN /\ ev.direction = BUY)
                    => getOpenBuyUnfilledOrder(b, ev.instrument) = ev.ret
              /\ (ev.action = OPEN /\ ev.direction = SELL)
                    => getOpenSellUnfilledOrder(b, ev.instrument) = ev.ret
              /\ (ev.action = CLOSE /\ ev.direction = BUY)
                    => getCloseBuyUnfilledOrder(b, ev.instrument) = ev.ret
              /\ (ev.action = CLOSE /\ ev.direction = SELL)
                    => getCloseSellUnfilledOrder(b, ev.instrument) = ev.ret
              /\ UNCHANGED <<engine, engine_events, order_index,
                             order_strategy_dict, strategy_portfolio_dict,
                             global_portfolio, price_index>>
      ]_vars

\* The query returned 1 for OPEN/BUY on an instrument while the book also
\* holds a filled OPEN/BUY order of that instrument and an outstanding
\* OPEN/BUY order of the other instrument.
C22_Witness ==
    /\ last.op = "getUnfilledOrder"
    /\ last.event.ret = 1
    /\ last.event.action = OPEN
    /\ last.event.direction = BUY
    /\ LET b == Book(last.event.strategy_name)
       IN /\ \E j \in 1..Len(b.fill_record) :
                /\ b.fill_record[j].instrument = last.event.instrument
                /\ b.fill_record[j].action = OPEN
                /\ b.fill_record[j].direction = BUY
          /\ \E k \in DOMAIN b.unfilled_order :
                /\ b.unfilled_order[k].instrument # last.event.instrument
                /\ b.unfilled_order[k].action = OPEN
                /\ b.unfilled_order[k].direction = BUY

\* C23: getPosition, getLongPosition and getShortPosition return 0 for an
\* instrument with no position record and the stored value of the side
\* otherwise, and leave the book, and everything else, as it was: no record
\* is created for an unknown instrument.
C23_GetPosition ==
    [][last'.op \in {"getPosition", "getLongPosition", "getShortPosition"}
        => LET ev == last'.event
               b == strategy_portfolio_dict[ev.strategy_name]
           IN /\ last'.op = "getLongPosition" => ev.type = LONG
              /\ last'.op = "getShortPosition" => ev.type = SHORT
              /\ ev.ret = IF ev.instrument \in DOMAIN b.position
                          THEN b.position[ev.instrument][ev.type]
                          ELSE 0
              /\ UNCHANGED <<engine, engine_events, order_index,
                             order_strategy_dict, strategy_portfolio_dict,
                             global_portfolio, price_index>>
      ]_vars

\* getLongPosition returned 0 for an instrument that has no record in a book
\* holding 2 units of the other instrument, and still has none.
C23_Witness ==
    /\ last.op = "getLongPosition"
    /\ last.event.ret = 0
    /\ LET b == Book(last.event.strategy_name)
       IN /\ last.event.instrument \notin DOMAIN b.position
          /\ \E i \in DOMAIN b.position : b.position[i][LONG] = 2

\* C24: when dealFillEvent on an outstanding index fails with
\* InsufficientPosition or over an invalid (action, direction) pair, the book
\* is left as before the call: the index is still outstanding, the fill is
\* not in fill_record and the position is unchanged.
C24_FillFailureAtomic ==
    [][(/\ last'.op = "dealFillEvent"
        /\ last'.status \in {"InsufficientPosition", "InvalidEvent"}
        /\ last'.event.fill.index \in
              DOMAIN strategy_portfolio_dict[last'.event.strategy_name]
                         .unfilled_order)
        => LET before == strategy_portfolio_dict[last'.event.strategy_name]
               after == strategy_portfolio_dict'[last'.event.strategy_name]
           IN /\ after.unfilled_order = before.unfilled_order
              /\ after.fill_record = before.fill_record
              /\ after.position = before.position
      ]_vars

\* The indices of the fills recorded in a book.
FillIndices(b) == {b.fill_record[j].index : j \in 1..Len(b.fill_record)}

\* C25: in a run whose calls all completed without failure, every book has
\* as many recorded orders as recorded fills plus outstanding orders, as many
\* recorded signals as recorded orders, and its unfilled_order holds exactly
\* the recorded orders whose index has no recorded fill.
C25_Bookkeeping ==
    \A s \in Registered :
        LET b == Book(s)
        IN /\ Len(b.order_record) =
                  Len(b.fill_record) + Cardinality(DOMAIN b.unfilled_order)
           /\ Len(b.signal_record) = Len(b.order_record)
           /\ DOMAIN b.unfilled_order =
                  {b.order_record[k].index : k \in 1..Len(b.order_record)}
                      \ FillIndices(b)
           /\ \A k \in 1..Len(b.order_record) :
                  b.order_record[k].index \notin FillIndices(b)
                      => b.unfilled_order[b.order_record[k].index]
                             = b.order_record[k]

\* A book with three recorded signals and orders, two of them filled and one
\* outstanding.
C25_Witness ==
    \E s \in Registered :
        /\ Len(Book(s).signal_record) = 3
        /\ Len(Book(s).order_record) = 3
        /\ Len(Book(s).fill_record) = 2
        /\ Cardinality(DOMAIN Book(s).unfilled_order) = 1

\* C26: when dealSignal calls engine.addEvent(order), dealOrderEvent and the
\* order_strategy_dict assignment have already run: the order is in the
\* owning book's unfilled_order and its index maps to that strategy, so the
\* fill copying the order, delivered right away, is routed to that book, found
\* outstanding and recorded there; under the tick policy it completes.
C26_RegisteredBeforeDispatch ==
    [][(last'.op = "dealSignal" /\ last'.status = "ok")
        => LET o == last'.order
               s == last'.event.strategy_name
               calls == last'.calls
               at(c) == CHOOSE k \in DOMAIN calls : calls[k] = c
               r == dealFill(Self', FillOf(o))
           IN /\ \A c \in {"dealOrderEvent", "addEvent.map", "engine.addEvent"} :
                    \E k \in DOMAIN calls : calls[k] = c
              /\ at("dealOrderEvent") < at("engine.addEvent")
              /\ at("addEvent.map") < at("engine.addEvent")
              /\ o.index \in DOMAIN strategy_portfolio_dict'[s].unfilled_order
              /\ strategy_portfolio_dict'[s].unfilled_order[o.index] = o
              /\ o.index \in DOMAIN order_strategy_dict'
              /\ order_strategy_dict'[o.index] = s
              /\ Last(engine_events') = o
              /\ r.status \notin {"UnknownOrder", "UnknownStrategy"}
              /\ Last(r.self.strategy_portfolio_dict[s].fill_record)
                     = FillOf(o)
              /\ o.index \notin
                     DOMAIN r.self.strategy_portfolio_dict[s].unfilled_order
              /\ \A x \in DOMAIN strategy_portfolio_dict' :
                    x # s => r.self.strategy_portfolio_dict[x]
                                 = strategy_portfolio_dict'[x]
              /\ policy = "tick" => r.status = "ok"
      ]_vars

\* A closing order has just been handed to the engine while another order of
\* the same book is still outstanding.
C26_Witness ==
    /\ last.op = "dealSignal"
    /\ last.status = "ok"
    /\ last.order.action = CLOSE
    /\ Last(engine_events) = last.order
    /\ Cardinality(DOMAIN Book(last.event.strategy_name).unfilled_order) = 2

\* C27: in a run whose calls all completed without failure the keys of
\* order_strategy_dict are exactly 0 .. order_index - 1, every one of them the
\* index of exactly one recorded order, recorded in the book of the strategy
\* it maps to; the map only grows and no entry is re-pointed.
C27_IndexMapCorrespondence ==
    [][/\ DOMAIN order_strategy_dict' = 0..(order_index' - 1)
       /\ \A i \in DOMAIN order_strategy_dict' :
             /\ order_strategy_dict'[i] \in DOMAIN strategy_portfolio_dict'
             /\ \A s \in DOMAIN strategy_portfolio_dict' :
                   Cardinality(
                       {k \in 1..Len(strategy_portfolio_dict'[s].order_record) :
                           strategy_portfolio_dict'[s].order_record[k].index
                               = i})
                       = IF s = order_strategy_dict'[i] THEN 1 ELSE 0
       /\ \A i \in DOMAIN order_strategy_dict :
             /\ i \in DOMAIN order_strategy_dict'
             /\ order_strategy_dict'[i] = order_strategy_dict[i]
      ]_vars

\* Three indices allocated, mapped to two different strategies.
C27_Witness ==
    /\ order_index = 3
    /\ DOMAIN order_strategy_dict = {0, 1, 2}
    /\ order_strategy_dict[0] # order_strategy_dict[2]
    /\ last.op = "dealSignal"

\* The fills recorded over all books.
RECURSIVE SumFillRecords(_)
SumFillRecords(names) ==
    IF names = {} THEN 0
    ELSE LET n == CHOOSE x \in names : TRUE
         IN Len(Book(n).fill_record) + SumFillRecords(names \ {n})

\* No order is outstanding and as many fills are recorded as orders were
\* issued.
AllFilled ==
    /\ \A s \in Registered : DOMAIN Book(s).unfilled_order = {}
    /\ SumFillRecords(Registered) = order_index
    /\ Len(engine_events) = order_index

\* C28: under the tick policy, with a bounded sequence of LONG / SHORT
\* signals for registered strategies and an engine that eventually delivers
\* the fill copying each order it was handed, no signal and no fill fails and
\* the run ends for good in a state with no outstanding order and as many
\* recorded fills as orders issued.
C28_RunCompletion ==
    /\ [](last.op \in {"dealSignal", "dealFill"} => last.status = "ok")
    /\ <>[]AllFilled

\* All three orders of the run are filled, a closing one among them.
C28_Witness ==
    /\ order_index = MaxOrderIndex
    /\ AllFilled
    /\ \E s \in Registered : \E j \in 1..Len(Book(s).fill_record) :
          Book(s).fill_record[j].action = CLOSE

====
